---------------------------- MODULE Spec2Model ----------------------------
(***************************************************************************)
(* Model of the rusprofile parser service (app/parser.py, app/main.py,     *)
(* app/database.py).                                                       *)
(*                                                                         *)
(* Time.  The event-loop clock read by _throttle (loop.time()) is `clock`, *)
(* counted in half seconds, so REQUEST_DELAY = 2.5 s is 5 units.  The wall *)
(* clock used for the cache TTL (datetime.now / SQL NOW()) is `wall`,      *)
(* counted in hours.                                                       *)
(*                                                                         *)
(* Scheduling.  The service runs on one asyncio event loop: a coroutine    *)
(* runs without interruption from one await to the next, so every action   *)
(* below is the code between two awaits of one task.                       *)
(***************************************************************************)
EXTENDS Integers, Sequences, FiniteSets, TLC

NumTasks == 2
MaxClock == 12
MaxCalls == 2
MaxResults == 3
MaxApply == 2
MaxRequests == 2
MaxInFlight == 1
MaxWall == 25
MaxGroup == 2
MaxEmpty == 1

\* app/config.py: CACHE_TTL_HOURS = 24
CACHE_TTL_HOURS == 24

\* app/config.py: REQUEST_DELAY = 2.5 seconds, in half-second units
REQUEST_DELAY == 5

Tasks == 1..NumTasks

VARIABLES
    clock,              \* asyncio loop.time()
    last_request_time,  \* parser._last_request_time
    pc,                 \* position of every task (coroutine)
    now,                \* _throttle's local `now` of every task that sleeps in it
    wake,               \* loop time at which the task's asyncio.sleep is due
    calls,              \* number of _throttle calls every caller has started
    permits,            \* history: the loop times of the last two returns of _throttle
    wall,               \* wall clock: datetime.now(timezone.utc), SQL NOW()
    pool,               \* database._pool is set (TRUE) or None (FALSE)
    cache,              \* table organizations: inn -> row, or no row
    rq,                 \* the API request every task is serving
    served,             \* number of API requests received
    fn                  \* a call of a pure function: its arguments and result

thrVars == <<clock, last_request_time, now, wake, calls, permits>>
apiVars == <<wall, pool, cache, rq, served>>
vars == <<pc, thrVars, apiVars, fn>>

(***************************************************************************)
(* Values.  A Python str is a sequence of one-character strings; None is   *)
(* the one-element sequence Null, which no str of the model equals.  A     *)
(* dict key that is absent is modelled by the value Null as well: the code *)
(* reads every key with item.get(key), which returns None for it.          *)
(***************************************************************************)
Null == <<"None">>
EmptyStr == <<>>

\* The integer 0, a value that is not None but is falsy in Python.
Zero == <<"int0">>

\* Python truthiness of a field value: None, "" and 0 are falsy.
Truthy(v) == v \notin {Null, EmptyStr, Zero}

\* item.get(key, "") of lines 72, 598, 646: "" for an absent key
GetOrEmpty(v) == IF v = Null THEN EmptyStr ELSE v

\* Python's `a or b`
Or(a, b) == IF Truthy(a) THEN a ELSE b

(***************************************************************************)
(* Identifier cleaning: parser._clean_inn                                  *)
(***************************************************************************)
Markers == {"!", "~"}
Whitespace == {" "}

IsMarker(c) == c \in Markers

\* re.sub(r"[!~]", "", raw): every marker character is removed
RemoveMarkers_first(raw) ==
    IF raw # <<>> /\ IsMarker(Head(raw)) THEN Tail(raw) ELSE raw

RemoveMarkers(raw) == SelectSeq(raw, LAMBDA c : ~IsMarker(c))

RECURSIVE LStrip(_)
LStrip(s) ==
    IF s # <<>> /\ Head(s) \in Whitespace THEN LStrip(Tail(s)) ELSE s

RECURSIVE RStrip(_)
RStrip(s) ==
    IF s # <<>> /\ s[Len(s)] \in Whitespace
    THEN RStrip(SubSeq(s, 1, Len(s) - 1))
    ELSE s

\* str.strip(): whitespace is removed at both ends only
Strip(s) == RStrip(LStrip(s))

clean_inn(raw) == Strip(RemoveMarkers(raw))

(***************************************************************************)
(* Upstream search candidates.  A raw candidate is the dict of the JSON    *)
(* answer, reduced to the keys the pipelines read for matching and for the *)
(* fields of the model's record.                                           *)
(***************************************************************************)
INN_A == <<"7", "7", "0", "0", "0", "0", "0", "0", "0", "1">>
INN_B == <<"7", "7", "0", "0", "0", "0", "0", "0", "0", "2">>
OGRN_A == <<"1", "0", "2", "7", "7", "0", "0", "0", "0", "0", "0", "0", "1">>
OGRN_B == <<"1", "0", "2", "7", "7", "0", "0", "0", "0", "0", "0", "0", "2">>

Highlight(s) == <<"!">> \o s \o <<"~">>

ItemKeys == {"inn", "ogrn", "raw_ogrn", "url", "okpo", "region"}

EmptyDict == [k \in ItemKeys |-> Null]

Item(inn, ogrn, raw_ogrn, url, okpo, region) ==
    [inn |-> inn, ogrn |-> ogrn, raw_ogrn |-> raw_ogrn, url |-> url,
     okpo |-> okpo, region |-> region]

\* bool(item) of lines 603 and 627: a dict is falsy only when it is empty
DictTruthy(item) == \E k \in ItemKeys : item[k] # Null

URL_1 == <<"/", "i", "d", "/", "1">>
URL_2 == <<"/", "i", "d", "/", "2">>
OKPO_S == <<"1", "1">>
OKPO_D == <<"2", "2">>
REGION_M == <<"M">>
KPP_1 == <<"9">>

\* The loop of get_company_by_inn, lines 596-601: index of the first
\* candidate whose cleaned inn equals the target, 0 when the loop ends
\* without a break.
RECURSIVE FindInnFrom(_, _, _)
FindInnFrom(results, inn, i) ==
    IF i > Len(results) THEN 0
    ELSE IF clean_inn(GetOrEmpty(results[i].inn)) = inn THEN i
    ELSE FindInnFrom(results, inn, i + 1)

FindInn(results, inn) == FindInnFrom(results, inn, 1)

\* The loop of get_company_by_ogrn, lines 621-625: the raw fields are
\* compared with the target as they are.
RECURSIVE FindOgrnFrom(_, _, _)
FindOgrnFrom(results, ogrn, i) ==
    IF i > Len(results) THEN 0
    ELSE IF results[i].ogrn = ogrn \/ results[i].raw_ogrn = ogrn THEN i
    ELSE FindOgrnFrom(results, ogrn, i + 1)

FindOgrn(results, ogrn) == FindOgrnFrom(results, ogrn, 1)

\* An optional dict or record: <<>> is None, <<x>> is the object x.
Nothing == <<>>
Some(x) == <<x>>

\* Lines 596-604 and 621-628: the selected candidate, or Nothing for
\* `return None` (no candidate selected, or the selected dict is falsy).
SelectTarget_firstFallback(results, idx) ==
    IF idx = 0
    THEN IF results = <<>> THEN Nothing ELSE Some(results[1])
    ELSE IF ~DictTruthy(results[idx]) THEN Nothing
    ELSE Some(results[idx])

SelectTarget(results, idx) ==
    IF idx = 0 THEN Nothing
    ELSE IF ~DictTruthy(results[idx]) THEN Nothing
    ELSE Some(results[idx])

MatchByInn(results, inn) == SelectTarget(results, FindInn(results, inn))

MatchByOgrn(results, ogrn) == SelectTarget(results, FindOgrn(results, ogrn))

(***************************************************************************)
(* The record: models.Company, reduced to the identity fields, the summary *)
(* fields okpo and region, the detail-page fields kpp and                  *)
(* ceo_other_companies (an int field) and the cache metadata.              *)
(***************************************************************************)
CompanyFields ==
    {"inn", "ogrn", "okpo", "region", "kpp", "ceo_other_companies", "url",
     "cached", "cached_at"}

BASE_URL == <<"https://www.rusprofile.ru">>

\* parser._parse_ajax_item, lines 70-102
parse_ajax_item(item) ==
    [inn |-> clean_inn(GetOrEmpty(item.inn)),
     ogrn |-> Or(item.ogrn, item.raw_ogrn),
     okpo |-> IF Truthy(item.okpo) THEN item.okpo ELSE Null,
     region |-> item.region,
     kpp |-> Null,
     ceo_other_companies |-> Null,
     url |-> IF Truthy(item.url) THEN BASE_URL \o item.url ELSE Null,
     cached |-> FALSE,
     cached_at |-> Null]

\* Keys an extra-field dict may carry: fields of the record and one key
\* that is no attribute of Company.  Absent marks a key not in the dict.
ExtraKeys == {"okpo", "region", "kpp", "ceo_other_companies", "nokey"}
Absent == <<"absent">>

PinnedFields == {"okpo"}

\* The condition of line 588, as written and with the pin dropped
Overwrites_nopin(current, key, value) == current = Null \/ Truthy(value)

Overwrites_always(current, key, value) == TRUE

Overwrites(current, key, value) ==
    current = Null \/ (Truthy(value) /\ key \notin PinnedFields)

\* The body of the loop of _apply_extra, lines 584-589, for one dict entry:
\* setattr replaces the field; the variant extends the value it finds
ApplyKey_append(company, key, value) ==
    IF value # Null /\ key \in CompanyFields
    THEN IF Overwrites(company[key], key, value)
         THEN [company EXCEPT
                  ![key] = IF @ = Null THEN value ELSE @ \o value]
         ELSE company
    ELSE company

ApplyKey(company, key, value) ==
    IF value # Null /\ key \in CompanyFields
    THEN IF Overwrites(company[key], key, value)
         THEN [company EXCEPT ![key] = value]
         ELSE company
    ELSE company

\* parser._apply_extra, lines 581-589: the loop over the entries of the dict
RECURSIVE ApplyKeys(_, _, _)
ApplyKeys(company, extra, keys) ==
    IF keys = {} THEN company
    ELSE LET k == CHOOSE x \in keys : TRUE
         IN  ApplyKeys(ApplyKey(company, k, extra[k]), extra, keys \ {k})

apply_extra(company, extra) ==
    ApplyKeys(company, extra, {k \in DOMAIN extra : extra[k] # Absent})

NoCall == [op |-> "none"]

(***************************************************************************)
(* Rate limiter: parser._throttle                                          *)
(***************************************************************************)

\* The value _throttle stores in _last_request_time when it returns
\* (line 47 reads the loop clock again, after the sleep).
PermittedTime_stale(t) == now[t]

PermittedTime(t) == clock

\* The history keeps the two latest returns of _throttle; the loop clock
\* never runs backwards, so they are the two closest ones.
Permit(at) ==
    IF Len(permits) < 2 THEN Append(permits, at) ELSE <<permits[2], at>>

\* Lines 43-47 up to the first await: read the clock, compute the wait and
\* either start sleeping or (wait <= 0) record the time and return.
ThrottleEnter(t, fromL, sleepL, doneL) ==
    /\ pc[t] = fromL
    /\ LET wait == REQUEST_DELAY - (clock - last_request_time)
       IN  IF wait > 0
              THEN /\ pc' = [pc EXCEPT ![t] = sleepL]
                   /\ now' = [now EXCEPT ![t] = clock]
                   /\ wake' = [wake EXCEPT ![t] = clock + wait]
                   /\ UNCHANGED <<last_request_time, permits>>
              ELSE /\ pc' = [pc EXCEPT ![t] = doneL]
                   /\ last_request_time' = clock
                   /\ permits' = Permit(clock)
                   /\ UNCHANGED <<now, wake>>
    /\ UNCHANGED clock

\* Lines 46-47 after the await: asyncio.sleep(wait) has completed (the loop
\* resumes the task at or after the due time), record the time and return.
ThrottleWake(t, sleepL, doneL) ==
    /\ pc[t] = sleepL
    /\ clock >= wake[t]
    /\ last_request_time' = PermittedTime(t)
    /\ permits' = Permit(clock)
    /\ pc' = [pc EXCEPT ![t] = doneL]
    /\ now' = [now EXCEPT ![t] = 0]
    /\ wake' = [wake EXCEPT ![t] = 0]
    /\ UNCHANGED clock

\* Time passes on the event loop.
Tick ==
    /\ clock < MaxClock
    /\ clock' = clock + 1
    /\ UNCHANGED <<last_request_time, pc, now, wake, calls, permits, apiVars, fn>>

ThrottleInit ==
    /\ last_request_time = 0
    /\ now = [t \in Tasks |-> 0]
    /\ wake = [t \in Tasks |-> 0]
    /\ calls = [t \in Tasks |-> 0]
    /\ permits = <<>>

SeqsUpTo(S, n) == UNION {[1..k -> S] : k \in 0..n}

(***************************************************************************)
(* Cache gateway: app/database.py                                          *)
(***************************************************************************)
Columns == CompanyFields \ {"cached", "cached_at"}

CacheKeys == {INN_A, INN_B, EmptyStr}

\* The values save_company binds, lines 187-193: the record's columns
ColumnsOf(company) == [c \in Columns |-> company[c]]

\* database._row_to_company, lines 119-135
row_to_company(row) ==
    [f \in CompanyFields |->
        IF f = "cached" THEN TRUE
        ELSE IF f = "cached_at" THEN Some(row.updated_at)
        ELSE row.rec[f]]

\* Lines 153-154 and 175-176: the row is older than the TTL
IsExpired_atTtl(row, at) == at - row.updated_at >= CACHE_TTL_HOURS

IsExpired(row, at) == at - row.updated_at > CACHE_TTL_HOURS

\* The rows SELECT ... WHERE inn = $1 (line 143) and WHERE ogrn = $1
\* (line 165) can return; fetchrow returns one of them.
RowsByInn(inn) ==
    {cache[k][1] : k \in {k \in CacheKeys : k = inn /\ cache[k] # Nothing}}

RowsByOgrn(ogrn) ==
    {cache[k][1] : k \in {k \in CacheKeys :
                            cache[k] # Nothing /\ cache[k][1].rec.ogrn = ogrn}}

RowsFor(endpoint, ident) ==
    IF endpoint = "inn" THEN RowsByInn(ident) ELSE RowsByOgrn(ident)

\* The upsert of save_company, lines 199-206: one row per inn
Upsert(company) ==
    [cache EXCEPT ![company.inn] =
        Some([rec |-> ColumnsOf(company), updated_at |-> wall])]

(***************************************************************************)
(* API layer: app/main.py, and the lookup pipelines of app/parser.py       *)
(***************************************************************************)
Digits == {"0", "1", "2", "3", "4", "5", "6", "7", "8", "9"}

\* Characters outside 0..9 for which str.isdigit() is true as well (every
\* character of Unicode numeric type Digit or Decimal): SUPERSCRIPT TWO,
\* written by its code point, stands for them.
SUP2 == "U+00B2"
OtherDigits == {SUP2}

\* str.isdigit(): non-empty and every character a digit of Unicode
IsDigit(s) ==
    s # <<>> /\ \A i \in 1..Len(s) : s[i] \in Digits \cup OtherDigits

INN_LENGTHS == {10, 12}
OGRN_LENGTHS == {13, 15}

\* Lines 44 and 68
ValidIdent(endpoint, ident) ==
    /\ IsDigit(ident)
    /\ Len(ident) \in (IF endpoint = "inn" THEN INN_LENGTHS ELSE OGRN_LENGTHS)

\* Lines 47 and 71: the cache is read unless force is set
ReadsCache_always(force) == TRUE

ReadsCache(force) == ~force

Endpoints == {"inn", "ogrn"}

\* A path parameter of ten characters, none of them in 0..9
INN_SUP == [i \in 1..10 |-> SUP2]

\* Path parameters the requests of the model carry
IdentInputs(endpoint) ==
    IF endpoint = "inn"
    THEN {INN_A, INN_B, SubSeq(INN_A, 1, 9), Highlight(INN_A), INN_SUP}
    ELSE {OGRN_A, INN_A}

NoRequest ==
    [endpoint |-> "none", ident |-> <<>>, force |-> FALSE,
     company |-> Nothing, status |-> 0, body |-> Nothing,
     read |-> "none", searches |-> 0, search |-> "none",
     pages |-> 0, page |-> "none", saves |-> 0, save |-> "none",
     answer |-> Nothing, found |-> <<>>]

\* Candidates the upstream answers with in the lookups
LookupItems ==
    { Item(Highlight(INN_A), OGRN_A, Null, URL_1, OKPO_S, REGION_M),
      Item(INN_A, Highlight(OGRN_A), OGRN_A, Null, Null, EmptyStr),
      Item(INN_B, OGRN_B, Null, URL_2, Null, Null),
      Item(Null, OGRN_A, Null, URL_1, EmptyStr, Null) }

\* The two candidate lists of the JSON answer, data["ul"] and data["ip"]
SearchAnswers ==
    [ul : SeqsUpTo(LookupItems, 1), ip : SeqsUpTo(LookupItems, 1)]

ExtraDict(okpo, kpp) ==
    [okpo |-> okpo, region |-> Absent, kpp |-> kpp,
     ceo_other_companies |-> Absent, nokey |-> Absent]

\* Field dicts the extraction rules return for a fetched page
PageExtras ==
    { ExtraDict(Absent, Absent), ExtraDict(OKPO_D, KPP_1),
      ExtraDict(EmptyStr, EmptyStr) }

\* A request arrives at GET /company/inn/{inn} or /company/ogrn/{ogrn}:
\* lines 42-47 and 66-71.
Arrive(t, endpoint, ident, force) ==
    /\ pc[t] = "idle"
    /\ served < MaxRequests
    /\ Cardinality({u \in Tasks : pc[u] # "idle"}) < MaxInFlight
    /\ served' = served + 1
    /\ LET r == [NoRequest EXCEPT !.endpoint = endpoint, !.ident = ident,
                                  !.force = force]
       IN  IF ~ValidIdent(endpoint, ident)
           THEN /\ rq' = [rq EXCEPT ![t] = [r EXCEPT !.status = 400]]
                /\ pc' = [pc EXCEPT ![t] = "done"]
           ELSE /\ rq' = [rq EXCEPT ![t] = r]
                /\ pc' = [pc EXCEPT ![t] =
                            IF ReadsCache(force) THEN "cache_read"
                            ELSE "search_thr"]
    /\ UNCHANGED <<thrVars, wall, pool, cache, fn>>

\* main.py line 89: q: str = Query(..., min_length=2)
MIN_QUERY_LENGTH == 2

\* Query strings the searches of the model carry
QueryInputs == {<<"o">>, <<"o", "o", "o">>}

\* A request arrives at GET /search, lines 88-91: a query shorter than
\* min_length is answered 422 by the framework before the handler runs.
ArriveSearch(t, q) ==
    /\ pc[t] = "idle"
    /\ served < MaxRequests
    /\ Cardinality({u \in Tasks : pc[u] # "idle"}) < MaxInFlight
    /\ served' = served + 1
    /\ LET r == [NoRequest EXCEPT !.endpoint = "search", !.ident = q]
       IN  IF Len(q) < MIN_QUERY_LENGTH
           THEN /\ rq' = [rq EXCEPT ![t] = [r EXCEPT !.status = 422]]
                /\ pc' = [pc EXCEPT ![t] = "done"]
           ELSE /\ rq' = [rq EXCEPT ![t] = r]
                /\ pc' = [pc EXCEPT ![t] = "search_thr"]
    /\ UNCHANGED <<thrVars, wall, pool, cache, fn>>

\* database._ensure_pool, lines 72-92, finds no pool and cannot create one
\* (the store is unreachable): get_cached returns None, line 141.
CacheReadNoPool(t) ==
    /\ pc[t] = "cache_read"
    /\ ~pool
    /\ rq' = [rq EXCEPT ![t].read = "nopool"]
    /\ pc' = [pc EXCEPT ![t] = "search_thr"]
    /\ UNCHANGED <<thrVars, wall, pool, cache, served, fn>>

\* The pool exists or is created, and fetchrow raises (lines 143, 165):
\* nothing in get_cached or in the endpoint catches it.
CacheReadError(t) ==
    /\ pc[t] = "cache_read"
    /\ pool' = TRUE
    /\ rq' = [rq EXCEPT ![t].read = "error", ![t].status = 500]
    /\ pc' = [pc EXCEPT ![t] = "done"]
    /\ UNCHANGED <<thrVars, wall, cache, served, fn>>

\* get_cached / get_cached_by_ogrn, lines 138-157 and 160-179, with the
\* `if cached` of lines 49 and 73: no row or an expired row is a miss.
CacheReadMiss(t) ==
    /\ pc[t] = "cache_read"
    /\ pool' = TRUE
    /\ \/ RowsFor(rq[t].endpoint, rq[t].ident) = {}
       \/ \E row \in RowsFor(rq[t].endpoint, rq[t].ident) : IsExpired(row, wall)
    /\ rq' = [rq EXCEPT ![t].read = "miss"]
    /\ pc' = [pc EXCEPT ![t] = "search_thr"]
    /\ UNCHANGED <<thrVars, wall, cache, served, fn>>

\* A row within the TTL is returned as the response, lines 51 and 75.
CacheReadHit(t) ==
    /\ pc[t] = "cache_read"
    /\ pool' = TRUE
    /\ \E row \in RowsFor(rq[t].endpoint, rq[t].ident) :
          /\ ~IsExpired(row, wall)
          /\ rq' = [rq EXCEPT ![t].read = "hit", ![t].status = 200,
                              ![t].body = Some(row_to_company(row))]
    /\ pc' = [pc EXCEPT ![t] = "done"]
    /\ UNCHANGED <<thrVars, wall, cache, served, fn>>

\* search_ajax line 52 and parse_company_page line 545: the throttle gate
SearchThrottleEnter(t) ==
    /\ ThrottleEnter(t, "search_thr", "search_sleep", "search_io")
    /\ UNCHANGED <<calls, apiVars, fn>>

SearchThrottleWake(t) ==
    /\ ThrottleWake(t, "search_sleep", "search_io")
    /\ UNCHANGED <<calls, apiVars, fn>>

PageThrottleEnter(t) ==
    /\ ThrottleEnter(t, "page_thr", "page_sleep", "page_io")
    /\ UNCHANGED <<calls, apiVars, fn>>

PageThrottleWake(t) ==
    /\ ThrottleWake(t, "page_sleep", "page_io")
    /\ UNCHANGED <<calls, apiVars, fn>>

\* A sleeping task's timer runs: the loop clock advances to the next due time.
SleepElapse ==
    LET due == {wake[t] : t \in {u \in Tasks :
                    pc[u] \in {"search_sleep", "page_sleep"} /\ wake[u] > clock}}
    IN  /\ due # {}
        /\ clock' = CHOOSE d \in due : \A e \in due : d <= e
        /\ UNCHANGED <<last_request_time, pc, now, wake, calls, permits,
                       apiVars, fn>>

\* search_ajax lines 53-60: the GET fails, the status is not 2xx or the body
\* is not JSON.  The exception leaves search_ajax, the pipeline and the
\* endpoint: the request fails with 500.
SearchFail_swallowed(t) ==
    /\ pc[t] = "search_io"
    /\ rq' = [rq EXCEPT ![t].searches = @ + 1, ![t].search = "failed",
                        ![t].status = 404]
    /\ pc' = [pc EXCEPT ![t] = "done"]
    /\ UNCHANGED <<thrVars, wall, pool, cache, served, fn>>

SearchFail(t) ==
    /\ pc[t] = "search_io"
    /\ rq' = [rq EXCEPT ![t].searches = @ + 1, ![t].search = "failed",
                        ![t].status = 500]
    /\ pc' = [pc EXCEPT ![t] = "done"]
    /\ UNCHANGED <<thrVars, wall, pool, cache, served, fn>>

\* search_ajax lines 62-67: the "ul" candidates, then the "ip" candidates
SearchResults_ipFirst(data) == data.ip \o data.ul

SearchResults(data) == data.ul \o data.ip

\* get_company_by_inn lines 594-609 and get_company_by_ogrn lines 619-632
\* after the answer has arrived: select the candidate; None makes the
\* endpoint answer 404 (lines 55, 79); otherwise build the record and go on
\* to the detail page when the candidate has a url.
SearchOk(t, data) ==
    /\ pc[t] = "search_io"
    /\ rq[t].endpoint \in Endpoints
    /\ LET results == SearchResults(data)
           target == IF rq[t].endpoint = "inn"
                     THEN MatchByInn(results, rq[t].ident)
                     ELSE MatchByOgrn(results, rq[t].ident)
       IN  IF target = Nothing
           THEN /\ rq' = [rq EXCEPT ![t].searches = @ + 1, ![t].search = "ok",
                                    ![t].status = 404]
                /\ pc' = [pc EXCEPT ![t] = "done"]
           ELSE /\ rq' = [rq EXCEPT ![t].searches = @ + 1, ![t].search = "ok",
                             ![t].company = Some(parse_ajax_item(target[1]))]
                /\ pc' = [pc EXCEPT ![t] =
                            IF Truthy(target[1].url) THEN "page_thr"
                            ELSE "save"]
    /\ UNCHANGED <<thrVars, wall, pool, cache, served, fn>>

\* Candidates the upstream answers with in the free-text searches
ListItems ==
    { Item(Highlight(INN_A), OGRN_A, Null, URL_1, OKPO_S, REGION_M),
      Item(Null, Highlight(OGRN_B), OGRN_B, Null, Null, Null) }

ListAnswers ==
    [ul : SeqsUpTo(ListItems, MaxGroup), ip : SeqsUpTo(ListItems, MaxGroup)]

\* The SearchResult built of one candidate, lines 646-656, reduced to the
\* identity fields and the url
search_result(item) ==
    [inn |-> clean_inn(GetOrEmpty(item.inn)),
     ogrn |-> item.ogrn,
     url |-> IF Truthy(item.url) THEN BASE_URL \o item.url ELSE Null]

\* search_companies lines 642-657 after the answer has arrived, and the
\* endpoint, main.py lines 91-94: one SearchResult per candidate, 404 for
\* an empty list.  `answer` keeps the JSON answer the request got.
SearchListOk(t, data) ==
    /\ pc[t] = "search_io"
    /\ rq[t].endpoint = "search"
    /\ LET results == SearchResults(data)
           out == [i \in 1..Len(results) |-> search_result(results[i])]
       IN  rq' = [rq EXCEPT ![t].searches = @ + 1, ![t].search = "ok",
                            ![t].answer = Some(data), ![t].found = out,
                            ![t].status = IF out = <<>> THEN 404 ELSE 200]
    /\ pc' = [pc EXCEPT ![t] = "done"]
    /\ UNCHANGED <<thrVars, wall, pool, cache, served, fn>>

\* parse_company_page lines 547-578: the GET fails or the status is not 2xx;
\* the except of line 575 catches it and the empty dict is returned and
\* merged (lines 611-612, 634-635).
PageFail(t) ==
    /\ pc[t] = "page_io"
    /\ rq' = [rq EXCEPT ![t].pages = @ + 1, ![t].page = "failed",
                 ![t].company =
                     Some(apply_extra(rq[t].company[1],
                                      ExtraDict(Absent, Absent)))]
    /\ pc' = [pc EXCEPT ![t] = "save"]
    /\ UNCHANGED <<thrVars, wall, pool, cache, served, fn>>

\* The page arrives, the rules return `extra`, _apply_extra merges it.
PageOk(t, extra) ==
    /\ pc[t] = "page_io"
    /\ rq' = [rq EXCEPT ![t].pages = @ + 1, ![t].page = "ok",
                 ![t].company = Some(apply_extra(rq[t].company[1], extra))]
    /\ pc' = [pc EXCEPT ![t] = "save"]
    /\ UNCHANGED <<thrVars, wall, pool, cache, served, fn>>

\* Lines 57-63 and 81-87 with save_company: the record is returned whatever
\* the write does.  Here no pool can be created: save_company returns.
SaveNoPool(t) ==
    /\ pc[t] = "save"
    /\ ~pool
    /\ rq' = [rq EXCEPT ![t].saves = @ + 1, ![t].save = "nopool",
                        ![t].status = 200, ![t].body = rq[t].company]
    /\ pc' = [pc EXCEPT ![t] = "done"]
    /\ UNCHANGED <<thrVars, wall, pool, cache, served, fn>>

\* pool.execute raises; the except of lines 59 and 83 logs it.
SaveError(t) ==
    /\ pc[t] = "save"
    /\ pool' = TRUE
    /\ rq' = [rq EXCEPT ![t].saves = @ + 1, ![t].save = "error",
                        ![t].status = 200, ![t].body = rq[t].company]
    /\ pc' = [pc EXCEPT ![t] = "done"]
    /\ UNCHANGED <<thrVars, wall, cache, served, fn>>

\* The row is inserted or updated.
SaveOk(t) ==
    /\ pc[t] = "save"
    /\ pool' = TRUE
    /\ cache' = Upsert(rq[t].company[1])
    /\ rq' = [rq EXCEPT ![t].saves = @ + 1, ![t].save = "ok",
                        ![t].status = 200, ![t].body = rq[t].company]
    /\ pc' = [pc EXCEPT ![t] = "done"]
    /\ UNCHANGED <<thrVars, wall, served, fn>>

\* The response has been sent; the task is free for the next request.
Finish(t) ==
    /\ pc[t] = "done"
    /\ pc' = [pc EXCEPT ![t] = "idle"]
    /\ rq' = [rq EXCEPT ![t] = NoRequest]
    /\ UNCHANGED <<thrVars, wall, pool, cache, served, fn>>

WallSteps == {12, 13}

\* Hours pass between the steps of requests.
AdvanceWall(d) ==
    /\ wall + d <= MaxWall
    /\ wall' = wall + d
    /\ UNCHANGED <<pc, thrVars, pool, cache, rq, served, fn>>

ApiInit ==
    /\ wall = 0
    /\ cache = [k \in CacheKeys |-> Nothing]
    /\ rq = [t \in Tasks |-> NoRequest]
    /\ served = 0

\* After startup: lifespan has run init_db, which created the pool or not.
Init ==
    /\ clock = REQUEST_DELAY
    /\ ThrottleInit
    /\ pc = [t \in Tasks |-> "idle"]
    /\ pool \in BOOLEAN
    /\ ApiInit
    /\ fn = NoCall

Next ==
    \/ \E t \in Tasks, e \in Endpoints, force \in BOOLEAN :
          \E ident \in IdentInputs(e) : Arrive(t, e, ident, force)
    \/ \E t \in Tasks, q \in QueryInputs : ArriveSearch(t, q)
    \/ \E t \in Tasks : CacheReadNoPool(t)
    \/ \E t \in Tasks : CacheReadError(t)
    \/ \E t \in Tasks : CacheReadMiss(t)
    \/ \E t \in Tasks : CacheReadHit(t)
    \/ \E t \in Tasks : SearchThrottleEnter(t)
    \/ \E t \in Tasks : SearchThrottleWake(t)
    \/ \E t \in Tasks : SearchFail(t)
    \/ \E t \in Tasks, data \in SearchAnswers : SearchOk(t, data)
    \/ \E t \in Tasks, data \in ListAnswers : SearchListOk(t, data)
    \/ \E t \in Tasks : PageThrottleEnter(t)
    \/ \E t \in Tasks : PageThrottleWake(t)
    \/ \E t \in Tasks : PageFail(t)
    \/ \E t \in Tasks, extra \in PageExtras : PageOk(t, extra)
    \/ \E t \in Tasks : SaveNoPool(t)
    \/ \E t \in Tasks : SaveError(t)
    \/ \E t \in Tasks : SaveOk(t)
    \/ \E t \in Tasks : Finish(t)
    \/ \E d \in WallSteps : AdvanceWall(d)
    \/ SleepElapse

Spec == Init /\ [][Next]_vars

(***************************************************************************)
(* SpecThrottle: concurrent callers of _throttle (the search_ajax and      *)
(* parse_company_page invocations of simultaneous API requests), each      *)
(* calling the gate up to MaxCalls times.                                  *)
(***************************************************************************)
ClockStarts == {0, REQUEST_DELAY}

InitThrottle ==
    /\ clock \in ClockStarts
    /\ ThrottleInit
    /\ pc = [t \in Tasks |-> "t_idle"]
    /\ pool = FALSE
    /\ ApiInit
    /\ fn = NoCall

CallerEnter(t) ==
    /\ calls[t] < MaxCalls
    /\ calls' = [calls EXCEPT ![t] = @ + 1]
    /\ ThrottleEnter(t, "t_idle", "t_sleep", "t_done")
    /\ UNCHANGED <<apiVars, fn>>

CallerWake(t) ==
    /\ ThrottleWake(t, "t_sleep", "t_done")
    /\ UNCHANGED <<calls, apiVars, fn>>

\* _throttle has returned; the caller goes on to its request and may call again.
CallerReturn(t) ==
    /\ pc[t] = "t_done"
    /\ pc' = [pc EXCEPT ![t] = "t_idle"]
    /\ UNCHANGED <<thrVars, apiVars, fn>>

NextThrottle ==
    \/ \E t \in Tasks : CallerEnter(t)
    \/ \E t \in Tasks : CallerWake(t)
    \/ \E t \in Tasks : CallerReturn(t)
    \/ Tick

SpecThrottle == InitThrottle /\ [][NextThrottle]_vars

(***************************************************************************)
(* SpecMatch: the candidate selection of get_company_by_inn and            *)
(* get_company_by_ogrn applied to every list of at most MaxResults         *)
(* candidates of MatchItems and every target.                              *)
(***************************************************************************)
PadSpaces(s) == <<" ">> \o s \o <<" ">>

MatchItems ==
    { Item(INN_A, OGRN_A, Null, URL_1, OKPO_S, REGION_M),
      Item(Highlight(INN_A), OGRN_A, Null, URL_2, Null, Null),
      Item(INN_A, Highlight(OGRN_A), OGRN_A, URL_1, Null, Null),
      Item(INN_A, Highlight(OGRN_A), Null, URL_2, Null, Null),
      Item(PadSpaces(Highlight(INN_A)), PadSpaces(OGRN_A), Null, Null, Null, Null),
      Item(SubSeq(INN_A, 1, 5) \o <<"~", "!">> \o SubSeq(INN_A, 6, 10),
           Null, Null, URL_1, Null, Null),
      Item(SubSeq(INN_A, 1, 5) \o <<" ">> \o SubSeq(INN_A, 6, 10),
           SubSeq(OGRN_A, 1, 12), Null, URL_1, Null, Null),
      Item(SubSeq(INN_A, 1, 9), Null, Null, URL_1, Null, Null),
      Item(INN_B, OGRN_B, Null, URL_2, Null, Null),
      Item(Null, OGRN_A, Null, URL_1, Null, Null),
      EmptyDict }

InnTargets == {INN_A, INN_B}
OgrnTargets == {OGRN_A, OGRN_B}

MatchCall(op, results, target) ==
    [op |-> op, results |-> results, target |-> target,
     out |-> Nothing, done |-> FALSE]

InitMatch ==
    /\ clock = 0
    /\ ThrottleInit
    /\ pc = [t \in Tasks |-> "t_idle"]
    /\ pool = FALSE
    /\ ApiInit
    /\ \E results \in SeqsUpTo(MatchItems, MaxResults) :
          \/ \E target \in InnTargets :
                fn = MatchCall("by_inn", results, target)
          \/ \E target \in OgrnTargets :
                fn = MatchCall("by_ogrn", results, target)

RunMatchInn ==
    /\ fn.op = "by_inn"
    /\ ~fn.done
    /\ fn' = [fn EXCEPT !.out = MatchByInn(fn.results, fn.target),
                        !.done = TRUE]
    /\ UNCHANGED <<pc, thrVars, apiVars>>

RunMatchOgrn ==
    /\ fn.op = "by_ogrn"
    /\ ~fn.done
    /\ fn' = [fn EXCEPT !.out = MatchByOgrn(fn.results, fn.target),
                        !.done = TRUE]
    /\ UNCHANGED <<pc, thrVars, apiVars>>

NextMatch == RunMatchInn \/ RunMatchOgrn

SpecMatch == InitMatch /\ [][NextMatch]_vars

(***************************************************************************)
(* SpecMerge: _apply_extra applied, up to MaxApply times in a row, to      *)
(* every record and every extra-field dict over the values below.          *)
(***************************************************************************)
REGION_N == <<"N">>
One == <<"int1">>

StrValues == {Null, EmptyStr}
OkpoValues == StrValues \cup {OKPO_S, OKPO_D}
RegionValues == StrValues \cup {REGION_M, REGION_N}
KppValues == StrValues \cup {KPP_1}
IntValues == {Null, Zero, One}

MergeRecords ==
    { [parse_ajax_item(Item(INN_A, OGRN_A, Null, URL_1, Null, Null))
          EXCEPT !.okpo = o, !.region = r, !.kpp = k,
                 !.ceo_other_companies = c] :
      o \in OkpoValues, r \in RegionValues, k \in KppValues, c \in IntValues }

\* Summary candidates whose okpo key is absent, empty or a code
SummaryItems ==
    { Item(INN_A, OGRN_A, Null, URL_1, o, r) :
      o \in OkpoValues, r \in {Null, REGION_M} }

ExtraDicts ==
    { [okpo |-> o, region |-> r, kpp |-> k, ceo_other_companies |-> c,
       nokey |-> x] :
      o \in OkpoValues \cup {Absent}, r \in RegionValues \cup {Absent},
      k \in KppValues \cup {Absent}, c \in IntValues \cup {Absent},
      x \in {Absent, KPP_1} }

InitMerge ==
    /\ clock = 0
    /\ ThrottleInit
    /\ pc = [t \in Tasks |-> "t_idle"]
    /\ pool = FALSE
    /\ ApiInit
    /\ \/ \E company \in MergeRecords, extra \in ExtraDicts :
             fn = [op |-> "merge", item |-> Nothing, company |-> company,
                   extra |-> extra, prev |-> company, n |-> 0]
       \/ \E item \in SummaryItems, extra \in ExtraDicts :
             fn = [op |-> "summary", item |-> Some(item), extra |-> extra]

\* company = _parse_ajax_item(target), lines 606 and 630: the record the
\* detail-page fields are merged into is built from the summary candidate
ParseAjaxItem ==
    /\ fn.op = "summary"
    /\ fn' = [op |-> "merge", item |-> fn.item,
              company |-> parse_ajax_item(fn.item[1]), extra |-> fn.extra,
              prev |-> parse_ajax_item(fn.item[1]), n |-> 0]
    /\ UNCHANGED <<pc, thrVars, apiVars>>

\* one call _apply_extra(company, extra); the record is changed in place
ApplyExtra ==
    /\ fn.op = "merge"
    /\ fn.n < MaxApply
    /\ fn' = [fn EXCEPT !.prev = fn.company,
                        !.company = apply_extra(fn.company, fn.extra),
                        !.n = @ + 1]
    /\ UNCHANGED <<pc, thrVars, apiVars>>

NextMerge == ParseAjaxItem \/ ApplyExtra

SpecMerge == InitMerge /\ [][NextMerge]_vars

(***************************************************************************)
(* SpecExtract: the rule loop of parse_company_page, lines 555-573, run on *)
(* every document of the model.  A document is what the eleven rules make  *)
(* of it: each rule raises, returns the empty dict or returns its fields.  *)
(***************************************************************************)

\* The list `parsers`, lines 556-568
Rules ==
    << "_parse_basic_fields", "_parse_ceo", "_parse_msp",
       "_parse_tax_authority", "_parse_finances", "_parse_founders",
       "_parse_enforcement", "_parse_taxes", "_parse_reliability",
       "_parse_sections", "_parse_address_unreliable" >>

RuleNames == {Rules[i] : i \in 1..Len(Rules)}

\* The keys every rule may put in the dict it returns
RuleKeys_shared(r) ==
    CASE r = "_parse_basic_fields" ->
            {"kpp", "okpo", "okato", "oktmo", "okfs", "okogu", "full_name",
             "okopf_code", "okopf_name", "ogrn_date"}
      [] r = "_parse_ceo" ->
            {"ceo_inn", "ceo_start_date", "ceo_other_companies"}
      [] r = "_parse_msp" -> {"msp_status", "msp_date"}
      [] r = "_parse_tax_authority" ->
            {"tax_authority", "tax_authority_date"}
      [] r = "_parse_finances" ->
            {"revenue_year", "revenue", "revenue_change", "profit",
             "profit_change", "financial_stability", "solvency",
             "efficiency"}
      [] r = "_parse_founders" -> {"founders"}
      [] r = "_parse_enforcement" ->
            {"enforcement_count", "enforcement_sum"}
      [] r = "_parse_taxes" ->
            {"taxes_sum", "contributions_sum", "taxes_year", "revenue_year"}
      [] r = "_parse_reliability" -> {"reliability_rating"}
      [] r = "_parse_sections" -> {"sections"}
      [] r = "_parse_address_unreliable" -> {"address_unreliable"}

RuleKeys(r) ==
    CASE r = "_parse_basic_fields" ->
            {"kpp", "okpo", "okato", "oktmo", "okfs", "okogu", "full_name",
             "okopf_code", "okopf_name", "ogrn_date"}
      [] r = "_parse_ceo" ->
            {"ceo_inn", "ceo_start_date", "ceo_other_companies"}
      [] r = "_parse_msp" -> {"msp_status", "msp_date"}
      [] r = "_parse_tax_authority" ->
            {"tax_authority", "tax_authority_date"}
      [] r = "_parse_finances" ->
            {"revenue_year", "revenue", "revenue_change", "profit",
             "profit_change", "financial_stability", "solvency",
             "efficiency"}
      [] r = "_parse_founders" -> {"founders"}
      [] r = "_parse_enforcement" ->
            {"enforcement_count", "enforcement_sum"}
      [] r = "_parse_taxes" ->
            {"taxes_sum", "contributions_sum", "taxes_year"}
      [] r = "_parse_reliability" -> {"reliability_rating"}
      [] r = "_parse_sections" -> {"sections"}
      [] r = "_parse_address_unreliable" -> {"address_unreliable"}

\* What a rule does on a document: it raises, finds nothing, or finds its
\* fields
RuleOutcomes == {"raise", "empty", "fields"}

\* The dict a rule returns; a value is marked with the rule that found it
RuleOutput(r, outcome) ==
    IF outcome = "fields" THEN [k \in RuleKeys(r) |-> <<r>>]
    ELSE [k \in {} |-> <<r>>]

\* dict.update, line 571
DictUpdate(extra, d) ==
    [k \in DOMAIN extra \cup DOMAIN d |->
        IF k \in DOMAIN d THEN d[k] ELSE extra[k]]

\* The except of lines 572-573 ends the failure of one rule: the loop goes
\* on.  `raised` is an exception that leaves the loop.
OnRuleFailure_propagates(st) == [st EXCEPT !.raised = TRUE]

OnRuleFailure(st) == st

\* One turn of the loop, lines 569-573
RuleStep(r, outcome, st) ==
    IF st.raised THEN st
    ELSE IF outcome[r] = "raise" THEN OnRuleFailure(st)
    ELSE [st EXCEPT !.extra = DictUpdate(@, RuleOutput(r, outcome[r]))]

\* The loop over the rule list `order`, from position i on
RECURSIVE RunRulesFrom(_, _, _, _)
RunRulesFrom(order, outcome, i, st) ==
    IF i > Len(order) THEN st
    ELSE RunRulesFrom(order, outcome, i + 1, RuleStep(order[i], outcome, st))

\* Lines 546 and 569-573: extra = {} and the loop
RunRules(order, outcome) ==
    RunRulesFrom(order, outcome, 1,
                 [extra |-> [k \in {} |-> Null], raised |-> FALSE])

Reversed(seq) == [i \in 1..Len(seq) |-> seq[Len(seq) + 1 - i]]

Rotated(seq) == Tail(seq) \o <<Head(seq)>>

\* Rule lists: the source's, and two that move every rule
RuleOrders == {Rules, Reversed(Rules), Rotated(Rules)}

\* Documents: what every rule does on the page, with at most MaxEmpty
\* rules that find nothing
Documents ==
    {outcome \in [RuleNames -> RuleOutcomes] :
        Cardinality({r \in RuleNames : outcome[r] = "empty"}) <= MaxEmpty}

InitExtract ==
    /\ clock = 0
    /\ ThrottleInit
    /\ pc = [t \in Tasks |-> "t_idle"]
    /\ pool = FALSE
    /\ ApiInit
    /\ \E order \in RuleOrders, outcome \in Documents :
          fn = [op |-> "extract", order |-> order, outcome |-> outcome,
                extra |-> [k \in {} |-> Null], raised |-> FALSE,
                done |-> FALSE]

\* The rules run on the fetched document, one after the other, without an
\* await in between
ExtractFields ==
    /\ fn.op = "extract"
    /\ ~fn.done
    /\ LET st == RunRules(fn.order, fn.outcome)
       IN  fn' = [fn EXCEPT !.extra = st.extra, !.raised = st.raised,
                           !.done = TRUE]
    /\ UNCHANGED <<pc, thrVars, apiVars>>

NextExtract == ExtractFields

SpecExtract == InitExtract /\ [][NextExtract]_vars

(***************************************************************************)
(* Claims                                                                  *)
(***************************************************************************)

\* C1: any two returns of _throttle, by whatever callers, are at least
\* REQUEST_DELAY apart.
C1_PermitsSpaced ==
    \A i, j \in 1..Len(permits) :
        i < j => permits[j] - permits[i] >= REQUEST_DELAY

OthersNeverCalled(t) == \A u \in Tasks \ {t} : calls[u] = 0

\* C2: for a caller that is alone, consecutive calls are permitted at least
\* REQUEST_DELAY apart, and when a call has returned the stored time is that
\* call's permitted time.
C2_BackToBack ==
    \A t \in Tasks :
        OthersNeverCalled(t) =>
            /\ \A i \in 1..(Len(permits) - 1) :
                   permits[i + 1] - permits[i] >= REQUEST_DELAY
            /\ (pc[t] = "t_done" =>
                   last_request_time = permits[Len(permits)])

C2_Witness ==
    \E t \in Tasks :
        /\ OthersNeverCalled(t)
        /\ pc[t] = "t_done"
        /\ Len(permits) = 2

\* C3: when the search request of a lookup fails, the request ends there
\* with a failure (500, no body), after that one search request, without a
\* detail-page request and without a call of save_company; the failing step
\* leaves the cache as it is.
C3_SearchFailurePropagates ==
    [][\A t \in Tasks :
          rq'[t].search = "failed" =>
              /\ pc'[t] = "done"
              /\ rq'[t].status = 500
              /\ rq'[t].body = Nothing
              /\ rq'[t].searches = 1
              /\ rq'[t].pages = 0
              /\ rq'[t].saves = 0
              /\ (rq[t].search # "failed" => cache' = cache)]_vars

C3_Witness ==
    \E t \in Tasks :
        /\ pc[t] = "done"
        /\ rq[t].search = "failed"
        /\ rq[t].status = 500
        /\ rq[t].endpoint = "inn"

\* C4: a lookup whose detail-page fetch failed is not answered with success
\* and its record is not written to the cache.
C4_PageFailureAborts ==
    \A t \in Tasks :
        rq[t].page = "failed" => (rq[t].status # 200 /\ rq[t].save # "ok")

\* Keys of the cache entries held for the identifier of a request
StoredFor(endpoint, ident) ==
    {k \in CacheKeys :
        /\ cache[k] # Nothing
        /\ IF endpoint = "inn" THEN cache[k][1].rec.inn = ident
           ELSE cache[k][1].rec.ogrn = ident}

WithinTtl(k) == wall - cache[k][1].updated_at <= CACHE_TTL_HOURS

IsStoredRecord(body, k) ==
    /\ body # Nothing
    /\ body[1].cached = TRUE
    /\ body[1].cached_at = Some(cache[k][1].updated_at)
    /\ \A c \in Columns : body[1][c] = cache[k][1].rec[c]

\* C5: when the cache read of a non-forced lookup completes: if the entry
\* held for the identifier is within the TTL, the request ends with 200 and
\* the stored record marked cached, without upstream request and without
\* cache write; if there is no entry or it is older than the TTL, the
\* lookup goes on to the live pipeline.
C5_CacheHitWithinTtl ==
    [][\A t \in Tasks :
          (pc[t] = "cache_read" /\ rq'[t].read \in {"hit", "miss"}) =>
              LET S == StoredFor(rq[t].endpoint, rq[t].ident)
              IN  /\ ~rq[t].force
                  /\ (S # {} /\ \A k \in S : WithinTtl(k)) =>
                        /\ pc'[t] = "done"
                        /\ rq'[t].status = 200
                        /\ \E k \in S : IsStoredRecord(rq'[t].body, k)
                        /\ rq'[t].searches = 0
                        /\ rq'[t].pages = 0
                        /\ rq'[t].saves = 0
                        /\ cache' = cache
                  /\ (\A k \in S : ~WithinTtl(k)) =>
                        /\ pc'[t] = "search_thr"
                        /\ rq'[t].status = 0]_vars

\* a row of exactly the TTL's age has been served from the cache
C5_Witness ==
    \E t \in Tasks :
        /\ pc[t] = "done"
        /\ rq[t].read = "hit"
        /\ rq[t].status = 200
        /\ rq[t].body[1].cached
        /\ rq[t].body[1].cached_at = Some(wall - CACHE_TTL_HOURS)

\* C6: a forced lookup with a valid identifier never reads the cache, has
\* issued the search request when it ends, and, when it ends with a record,
\* has called save_company before; if that write went through, the row of
\* the record's inn holds the record, stamped with the current time.
C6_ForceBypassesRead ==
    [][\A t \in Tasks :
          (rq'[t].force /\ ValidIdent(rq'[t].endpoint, rq'[t].ident)) =>
              /\ rq'[t].read = "none"
              /\ pc'[t] # "cache_read"
              /\ (pc'[t] = "done" => rq'[t].searches = 1)
              /\ (pc'[t] = "done" /\ pc[t] # "done" /\ rq'[t].status = 200) =>
                    /\ rq'[t].saves = 1
                    /\ rq'[t].body = rq[t].company
                    /\ (rq'[t].save = "ok" =>
                           cache'[rq'[t].body[1].inn] =
                               Some([rec |-> [c \in Columns |->
                                                 rq'[t].body[1][c]],
                                     updated_at |-> wall]))]_vars

\* a forced lookup has searched upstream although a fresh entry is held
C6_Witness ==
    \E t \in Tasks :
        /\ rq[t].force
        /\ pc[t] = "save"
        /\ rq[t].searches = 1
        /\ rq[t].endpoint = "inn"
        /\ cache[rq[t].ident] # Nothing
        /\ WithinTtl(rq[t].ident)

\* C7: a lookup whose cache read failed or found the store unreachable
\* still goes on to the live search.
C7_CacheErrorNeverBlocks ==
    \A t \in Tasks :
        (rq[t].read \in {"nopool", "error"} /\ pc[t] = "done")
            => rq[t].searches = 1

\* The identifier of the claim's wording: every marker removed, then the
\* whitespace at both ends removed.
RECURSIVE WithoutMarkers(_)
WithoutMarkers(s) ==
    IF s = <<>> THEN <<>>
    ELSE IF Head(s) \in {"!", "~"} THEN WithoutMarkers(Tail(s))
    ELSE <<Head(s)>> \o WithoutMarkers(Tail(s))

Trimmed(s) ==
    LET inner == {i \in 1..Len(s) : s[i] # " "}
    IN  IF inner = {} THEN <<>>
        ELSE SubSeq(s, CHOOSE i \in inner : \A j \in inner : i <= j,
                       CHOOSE i \in inner : \A j \in inner : i >= j)

CleanedId(v) == IF v = Null THEN <<>> ELSE Trimmed(WithoutMarkers(v))

InnMatches(results, target) ==
    {i \in 1..Len(results) : CleanedId(results[i].inn) = target}

OgrnMatches(results, target) ==
    {i \in 1..Len(results) : CleanedId(results[i].ogrn) = target}

FirstOf(S) == CHOOSE i \in S : \A j \in S : i <= j

\* C8: get_company_by_inn selects the first candidate whose cleaned inn
\* equals the target, and nothing when no candidate's cleaned inn does.
C8_InnFirstExactMatch ==
    (fn.op = "by_inn" /\ fn.done) =>
        LET M == InnMatches(fn.results, fn.target)
        IN  IF M = {} THEN fn.out = Nothing
            ELSE fn.out = Some(fn.results[FirstOf(M)])

\* a highlighted, padded candidate is selected behind two that do not match
C8_Witness ==
    /\ fn.op = "by_inn"
    /\ fn.done
    /\ Len(fn.results) = 3
    /\ FirstOf(InnMatches(fn.results, fn.target) \cup {4}) = 3
    /\ fn.results[3].inn = PadSpaces(Highlight(INN_A))
    /\ fn.out = Some(fn.results[3])

\* C9: get_company_by_ogrn selects the first candidate whose cleaned ogrn
\* equals the target, and nothing only when no candidate's cleaned ogrn does.
C9_OgrnFirstCleanedMatch ==
    (fn.op = "by_ogrn" /\ fn.done) =>
        LET M == OgrnMatches(fn.results, fn.target)
        IN  IF M = {} THEN fn.out = Nothing
            ELSE fn.out = Some(fn.results[FirstOf(M)])

IsEmpty(v) == v \in {Null, EmptyStr}
IsValue(v) == v \notin {Null, EmptyStr, Absent}

NonPinned == {"region", "kpp", "ceo_other_companies"}

\* C10: in one merge, a non-pinned field that held a non-empty value is not
\* replaced when the incoming value is empty, null or missing, and a
\* non-pinned field that was empty takes a non-empty incoming value.
C10_FillForward ==
    (fn.op = "merge" /\ fn.n >= 1) =>
        \A f \in NonPinned :
            /\ (~IsEmpty(fn.prev[f]) /\ ~IsValue(fn.extra[f]))
                   => fn.company[f] = fn.prev[f]
            /\ (IsEmpty(fn.prev[f]) /\ IsValue(fn.extra[f]))
                   => fn.company[f] = fn.extra[f]

C10_Witness ==
    /\ fn.op = "merge"
    /\ fn.n = 1
    /\ fn.prev.region = REGION_M
    /\ fn.extra.region = EmptyStr
    /\ fn.company.region = REGION_M
    /\ fn.prev.kpp = EmptyStr
    /\ fn.extra.kpp = KPP_1
    /\ fn.company.kpp = KPP_1

\* C11: an okpo that the record got non-empty from the summary candidate
\* (_parse_ajax_item) is unchanged by merging any detail-page dict, also
\* one carrying another non-empty okpo; when the candidate's okpo is absent
\* or empty, the record's okpo is None before the merge and the detail-page
\* okpo is accepted.
C11_PinnedOkpo ==
    (fn.op = "merge" /\ fn.item # Nothing) =>
        LET raw == fn.item[1].okpo
            page == fn.extra.okpo
        IN  /\ (raw \notin {Null, EmptyStr}) => fn.company.okpo = raw
            /\ (raw \in {Null, EmptyStr} /\ fn.n = 0) =>
                   fn.company.okpo = Null
            /\ (raw \in {Null, EmptyStr} /\ fn.n > 0
                   /\ page \notin {Absent, Null}) =>
                   fn.company.okpo = page

C11_Witness ==
    /\ fn.op = "merge"
    /\ fn.item # Nothing
    /\ fn.n = 1
    /\ fn.item[1].okpo = OKPO_S
    /\ fn.extra.okpo = OKPO_D
    /\ fn.company.okpo = OKPO_S

\* C12: applying _apply_extra a second time with the same dict leaves the
\* record exactly as the first application left it.
C12_MergeIdempotent ==
    (fn.op = "merge" /\ fn.n = 2) => fn.company = fn.prev

C12_Witness ==
    /\ fn.op = "merge"
    /\ fn.n = 2
    /\ fn.item = Nothing
    /\ fn.extra.kpp = KPP_1
    /\ fn.extra.region = REGION_N
    /\ fn.company.kpp = KPP_1
    /\ fn.company.region = REGION_N
    /\ fn.company = fn.prev

\* A string of decimal digits 0..9 whose length the endpoint admits
DecimalString(s) == \A i \in 1..Len(s) : s[i] \in Digits

AdmittedLengths(endpoint) ==
    IF endpoint = "inn" THEN {10, 12} ELSE {13, 15}

\* C13: the tax-id endpoint accepts exactly the strings of 10 or 12 digits
\* and the registration-number endpoint exactly those of 13 or 15 digits;
\* every other string is answered with 400 at once, before any cache read,
\* throttle call or upstream request.
C13_ValidationExact ==
    [][\A t \in Tasks :
          (rq[t].endpoint = "none" /\ rq'[t].endpoint \in {"inn", "ogrn"}) =>
             IF /\ DecimalString(rq'[t].ident)
                /\ Len(rq'[t].ident) \in AdmittedLengths(rq'[t].endpoint)
             THEN rq'[t].status # 400
             ELSE /\ rq'[t].status = 400
                  /\ pc'[t] = "done"
                  /\ rq'[t].read = "none"
                  /\ rq'[t].searches = 0
                  /\ rq'[t].pages = 0
                  /\ rq'[t].saves = 0
                  /\ UNCHANGED <<thrVars, cache>>]_vars

\* No candidate of the list is the target: by-inn the cleaned inn decides,
\* by-ogrn the ogrn and raw_ogrn fields as they come.
NoExactMatch(endpoint, results, ident) ==
    \A i \in 1..Len(results) :
        IF endpoint = "inn" THEN CleanedId(results[i].inn) # ident
        ELSE results[i].ogrn # ident /\ results[i].raw_ogrn # ident

\* C14: when the search answers and no candidate matches the target, the
\* lookup ends with 404 without detail-page request and without cache
\* write, and a request answered 404 does nothing more than end, so that
\* no 404 creates or refreshes a cache entry.
C14_NotFoundWritesNothing ==
    [][\A t \in Tasks :
          /\ ( /\ pc[t] = "search_io"
                /\ rq'[t].search = "ok"
                /\ rq[t].endpoint \in {"inn", "ogrn"} ) =>
              \A data \in SearchAnswers :
                 ( /\ NoExactMatch(rq[t].endpoint, data.ul \o data.ip,
                                   rq[t].ident)
                   /\ SearchOk(t, data) ) =>
                    /\ rq'[t].status = 404
                    /\ pc'[t] = "done"
                    /\ rq'[t].pages = 0
                    /\ rq'[t].saves = 0
                    /\ rq'[t].body = Nothing
                    /\ cache' = cache
          /\ (rq[t].status = 404 /\ rq'[t] # rq[t]) =>
                 (rq'[t] = NoRequest /\ cache' = cache)]_vars

\* a by-inn lookup is answered 404 behind a search that returned a
\* candidate for another tax id, over a cache that holds an entry
C14_Witness ==
    \E t \in Tasks :
        /\ pc[t] = "done"
        /\ rq[t].endpoint = "inn"
        /\ rq[t].ident = INN_B
        /\ rq[t].search = "ok"
        /\ rq[t].status = 404
        /\ rq[t].searches = 1
        /\ rq[t].pages = 0
        /\ rq[t].saves = 0
        /\ cache[INN_A] # Nothing
        /\ cache[INN_B] = Nothing

\* The SearchResult expected for a raw candidate
Projection(item) ==
    [inn |-> CleanedId(item.inn),
     ogrn |-> item.ogrn,
     url |-> IF item.url \in {Null, EmptyStr} THEN Null
             ELSE BASE_URL \o item.url]

\* One result per candidate: the legal entities in upstream order, then
\* the individual entrepreneurs in upstream order
ProjectedList(data) ==
    [i \in 1..(Len(data.ul) + Len(data.ip)) |->
        Projection(IF i <= Len(data.ul) THEN data.ul[i]
                   ELSE data.ip[i - Len(data.ul)])]

\* C16: a free-text search passes the throttle gate once and makes one
\* search request and no detail-page request; its result is one
\* SearchResult per raw candidate, the "ul" candidates first and then the
\* "ip" candidates, each group in upstream order; an empty result is
\* answered 404.
C16_SearchProjection ==
    [][\A t \in Tasks :
          rq[t].endpoint = "search" =>
             /\ (pc[t] # "search_io" /\ pc'[t] = "search_io") =>
                    /\ pc[t] \in {"search_thr", "search_sleep"}
                    /\ rq[t].searches = 0
                    /\ last_request_time' = clock'
                    /\ permits' # <<>>
                    /\ permits'[Len(permits')] = clock'
             /\ (pc[t] = "search_io" /\ rq'[t].search = "ok") =>
                    /\ pc'[t] = "done"
                    /\ rq'[t].searches = 1
                    /\ rq'[t].pages = 0
                    /\ rq'[t].found = ProjectedList(rq'[t].answer[1])
                    /\ rq'[t].status =
                          IF rq'[t].found = <<>> THEN 404 ELSE 200
             /\ (pc[t] = "done" /\ rq'[t] # rq[t]) => rq'[t] = NoRequest]_vars

\* two legal entities and one entrepreneur, all three projected in order
C16_Witness ==
    \E t \in Tasks :
        /\ pc[t] = "done"
        /\ rq[t].endpoint = "search"
        /\ rq[t].status = 200
        /\ rq[t].searches = 1
        /\ rq[t].pages = 0
        /\ Len(rq[t].answer[1].ul) = 2
        /\ rq[t].answer[1].ul[1] # rq[t].answer[1].ul[2]
        /\ Len(rq[t].answer[1].ip) = 1
        /\ rq[t].answer[1].ip[1] = rq[t].answer[1].ul[2]
        /\ Len(rq[t].found) = 3
        /\ rq[t].found[1] = Projection(rq[t].answer[1].ul[1])
        /\ rq[t].found[3] = Projection(rq[t].answer[1].ip[1])

\* The rules that did not raise on the document
Succeeded(outcome) == {r \in RuleNames : outcome[r] # "raise"}

\* C15: whatever rules raise on a fetched document, every other rule is
\* run: the returned dict holds exactly the fields returned by the rules
\* that did not raise, each with the value its rule found, and no rule's
\* exception leaves the loop.
C15_RuleFailureIsolated ==
    (fn.op = "extract" /\ fn.done) =>
        /\ ~fn.raised
        /\ DOMAIN fn.extra =
              UNION {DOMAIN RuleOutput(r, fn.outcome[r]) :
                        r \in Succeeded(fn.outcome)}
        /\ \A r \in Succeeded(fn.outcome) :
              \A k \in DOMAIN RuleOutput(r, fn.outcome[r]) :
                  fn.extra[k] = RuleOutput(r, fn.outcome[r])[k]

\* the second and the tenth rule raise; the first, the ninth and the last
\* rule have put their fields in the dict
C15_Witness ==
    /\ fn.op = "extract"
    /\ fn.done
    /\ fn.order = Rules
    /\ fn.outcome["_parse_ceo"] = "raise"
    /\ fn.outcome["_parse_sections"] = "raise"
    /\ fn.outcome["_parse_basic_fields"] = "fields"
    /\ fn.outcome["_parse_reliability"] = "fields"
    /\ fn.outcome["_parse_address_unreliable"] = "fields"
    /\ {"kpp", "reliability_rating", "address_unreliable"}
          \subseteq DOMAIN fn.extra
    /\ DOMAIN fn.extra \cap {"ceo_inn", "sections"} = {}

\* C17: the key sets of the eleven rules are pairwise disjoint, and the
\* dict returned for a document is the one the source's rule order
\* returns, whatever the order of the rule list.
C17_RuleOrderIndependent ==
    /\ \A r1, r2 \in RuleNames :
          r1 # r2 => RuleKeys(r1) \cap RuleKeys(r2) = {}
    /\ (fn.op = "extract" /\ fn.done) =>
          fn.extra = RunRules(Rules, fn.outcome).extra

\* the reversed rule list on a document where every rule finds its fields
C17_Witness ==
    /\ fn.op = "extract"
    /\ fn.done
    /\ fn.order = Reversed(Rules)
    /\ \A r \in RuleNames : fn.outcome[r] = "fields"
    /\ DOMAIN fn.extra = UNION {RuleKeys(r) : r \in RuleNames}
    /\ fn.extra = RunRules(Rules, fn.outcome).extra

\* C18: when the cache write of a by-identifier lookup succeeds, the cache
\* holds an entry within the TTL under the key a repeated lookup with the
\* same identifier reads: inn equal to the queried tax id on the tax-id
\* endpoint, ogrn equal to the queried registration number on the
\* registration-number endpoint.
C18_ReadBackKey ==
    [][\A t \in Tasks :
          ( /\ pc[t] = "save"
            /\ rq[t].endpoint \in {"inn", "ogrn"}
            /\ rq'[t].save = "ok" ) =>
             \E k \in CacheKeys :
                /\ cache'[k] # Nothing
                /\ IF rq[t].endpoint = "inn"
                   THEN cache'[k][1].rec.inn = rq[t].ident
                   ELSE cache'[k][1].rec.ogrn = rq[t].ident
                /\ wall' - cache'[k][1].updated_at <= CACHE_TTL_HOURS]_vars

=============================================================================
